---- MODULE Spec2Model ----
(***************************************************************************)
(* Group operations on asynchronous I/O requests                           *)
(* (thrill/io/request_operations.hpp): wait_all, cancel_all, poll_any and  *)
(* wait_any, run by caller threads against Requests that the execution     *)
(* side completes concurrently.                                            *)
(*                                                                         *)
(* Every call of a Request method (add_waiter, delete_waiter, poll, wait,  *)
(* cancel, check_error) is one atomic step: a Request serialises access to *)
(* its state and waiter set.  The Request class and the onoff_switch are   *)
(* not part of the sources at hand; they are modelled from their contract. *)
(* Positions in a sequence are counted from 0, and the end-of-range        *)
(* position of a sequence is its length.                                   *)
(***************************************************************************)
EXTENDS Integers, Sequences, FiniteSets

\* Number of Request handles that exist.
NumRequests == 3
\* Longest request sequence handed to a group operation.
MaxLen == 3

Requests == 0 .. (NumRequests - 1)
Threads == {"main", "other"}
Kinds == {"wait_any", "wait_all", "cancel_all", "poll_any"}
Terminal == {"Completed", "Failed", "Canceled"}
States == {"Pending"} \cup Terminal

\* Sequences of distinct Request handles, of length 0 .. MaxLen.
Injective(s) == \A i, j \in DOMAIN s : s[i] = s[j] => i = j
Seqs == {s \in UNION {[1 .. n -> Requests] : n \in 0 .. MaxLen} : Injective(s)}

\* The sequences made of the first n handles, in order.
Prefixes == {[i \in 1 .. n |-> i - 1] : n \in 0 .. MaxLen}

VARIABLES
    state,      \* Request -> Pending, Completed, Failed, Canceled
    started,    \* Request -> execution has begun (cancel() can no longer succeed)
    waiters,    \* Request -> set of registered switches (a switch is named by its thread)
    sw,         \* thread -> its onoff_switch is on
    signals,    \* thread -> Requests that have signalled its switch (history)
    op,         \* thread -> the group operation it runs ("none": the thread is not used)
    seq,        \* thread -> the request sequence [reqs_begin, reqs_end)
    pc,         \* thread -> position in the code
    cur,        \* thread -> the iterator cur / reqs_begin, as a position
    result,     \* thread -> the iterator result / the value returned
    num_canceled, \* thread -> cancel_all's counter
    raised,     \* thread -> check_error() raised the stored error out of the call
    calls,      \* thread -> the Request-method calls of the current call, in order (history)
    snap        \* thread -> positions terminal at call, at wakeup and at return (history)

vars == <<state, started, waiters, sw, signals, op, seq, pc, cur, result,
          num_canceled, raised, calls, snap>>

reqVars == <<state, started, waiters, sw, signals>>
localVars == <<cur, result, num_canceled, raised>>

\* reqs_end as a position, and the Request at a position.
End(t) == Len(seq[t])
At(t, i) == seq[t][i + 1]
Positions(t) == 0 .. (End(t) - 1)
TermPos(t) == {i \in Positions(t) : state[At(t, i)] # "Pending"}
Call(m, i, ret) == [m |-> m, pos |-> i, ret |-> ret]

(***************************************************************************)
(* Request and onoff_switch, from their contract.                          *)
(***************************************************************************)
\* poll(): whether the Request is terminal.
poll(r) == state[r] # "Pending"

\* add_waiter(sw): true, and no registration, when already terminal.
add_waiter_ret(r) == poll(r)

\* (mutant) the registration is recorded even when the Request is terminal.
add_waiter_always(r, s) == [waiters EXCEPT ![r] = @ \cup {s}]

add_waiter(r, s) ==
    IF poll(r) THEN waiters ELSE [waiters EXCEPT ![r] = @ \cup {s}]

\* delete_waiter(sw): unregisters sw if still present.
delete_waiter(r, s) == [waiters EXCEPT ![r] = @ \ {s}]

\* check_error(): raises the stored error when the state is Failed.
check_error(r) == state[r] = "Failed"

\* (mutant) a signal flips the switch instead of setting it.
TransitionFlipping(r, to) ==
    /\ state' = [state EXCEPT ![r] = to]
    /\ sw' = [s \in Threads |-> IF s \in waiters[r] THEN ~sw[s] ELSE sw[s]]
    /\ signals' = [s \in Threads |->
                     IF s \in waiters[r] THEN signals[s] \cup {r} ELSE signals[s]]

\* The transition out of Pending: sets the state and signals every
\* registered switch, atomically.
Transition(r, to) ==
    /\ state' = [state EXCEPT ![r] = to]
    /\ sw' = [s \in Threads |-> sw[s] \/ s \in waiters[r]]
    /\ signals' = [s \in Threads |->
                     IF s \in waiters[r] THEN signals[s] \cup {r} ELSE signals[s]]

\* cancel(): succeeds only while Pending and not yet started; a successful
\* cancel is a transition out of Pending, a failed one changes nothing.
cancel_ret(r) == state[r] = "Pending" /\ ~started[r]

\* (mutant) a cancel() that fails re-arms the Request.
cancel_rearming(r) ==
    IF cancel_ret(r)
    THEN Transition(r, "Canceled")
    ELSE /\ state' = [state EXCEPT ![r] = "Pending"]
         /\ UNCHANGED <<sw, signals>>

cancel(r) ==
    IF cancel_ret(r)
    THEN Transition(r, "Canceled")
    ELSE UNCHANGED <<state, sw, signals>>

\* Execution side: the operation begins, then finishes or fails.
Start(r) ==
    /\ state[r] = "Pending" /\ ~started[r]
    /\ started' = [started EXCEPT ![r] = TRUE]
    /\ UNCHANGED <<state, waiters, sw, signals, op, seq, pc, calls, snap>>
    /\ UNCHANGED localVars

Complete(r) ==
    /\ state[r] = "Pending" /\ started[r]
    /\ Transition(r, "Completed")
    /\ UNCHANGED <<started, waiters, op, seq, pc, calls, snap>>
    /\ UNCHANGED localVars

Fail(r) ==
    /\ state[r] = "Pending" /\ started[r]
    /\ Transition(r, "Failed")
    /\ UNCHANGED <<started, waiters, op, seq, pc, calls, snap>>
    /\ UNCHANGED localVars

(***************************************************************************)
(* Entering and leaving a group operation.                                 *)
(***************************************************************************)
Entry(k) ==
    CASE k = "wait_any" -> "scan"
      [] k = "wait_all" -> "wa_loop"
      [] k = "cancel_all" -> "ca_loop"
      [] k = "poll_any" -> "pa_loop"

\* The call: the locals are initialised (cur = reqs_begin, result = reqs_end,
\* num_canceled = 0) and wait_any's switch is constructed off.
Enter(t) ==
    /\ pc[t] = "idle" /\ op[t] \in Kinds
    /\ pc' = [pc EXCEPT ![t] = Entry(op[t])]
    /\ cur' = [cur EXCEPT ![t] = 0]
    /\ result' = [result EXCEPT ![t] = End(t)]
    /\ num_canceled' = [num_canceled EXCEPT ![t] = 0]
    /\ raised' = [raised EXCEPT ![t] = FALSE]
    /\ sw' = [sw EXCEPT ![t] = FALSE]
    /\ signals' = [signals EXCEPT ![t] = {}]
    /\ calls' = [calls EXCEPT ![t] = <<>>]
    /\ snap' = [snap EXCEPT ![t] = [call |-> TermPos(t), wake |-> {}, ret |-> {}]]
    /\ UNCHANGED <<state, started, waiters, op, seq>>

\* The return of a call: pc becomes "done" and the history records which
\* positions are terminal at that moment.
Return(t, p) ==
    /\ pc' = [pc EXCEPT ![t] = p]
    /\ snap' = [snap EXCEPT ![t] =
                  IF p = "done" THEN [@ EXCEPT !.ret = TermPos(t)] ELSE @]

(***************************************************************************)
(* wait_any                                                                *)
(***************************************************************************)
\* (mutant) one switch is shared by all calls instead of being local to each.
SwitchShared(t) == "main"

\* common::onoff_switch sw: a switch local to the call, named by its thread.
Switch(t) == t

\* (mutant) the value add_waiter returns is ignored.
RegistrationHitIgnored(ret) == FALSE

\* if (add_waiter(&sw)): the request is already done.
RegistrationHit(ret) == ret

\* (mutant) the walk back starts from the last position of the sequence.
UndoFromEnd(c, end) == end - 1

\* --cur: the walk back starts just before the position found.
UndoFrom(c, end) == c - 1

\* The registration scan: one add_waiter call, or the end of the loop.
WaitAnyScan(t) ==
    /\ pc[t] = "scan" /\ cur[t] # End(t)
    /\ LET r == At(t, cur[t])
           ret == add_waiter_ret(r)
       IN /\ waiters' = add_waiter(r, Switch(t))
          /\ calls' = [calls EXCEPT ![t] = Append(@, Call("add_waiter", cur[t], ret))]
          /\ IF RegistrationHit(ret)
             THEN /\ result' = [result EXCEPT ![t] = cur[t]]
                  /\ IF cur[t] # 0
                     THEN /\ cur' = [cur EXCEPT ![t] = UndoFrom(@, End(t))]
                          /\ pc' = [pc EXCEPT ![t] = "undo"]
                     ELSE /\ pc' = [pc EXCEPT ![t] = "check"]
                          /\ UNCHANGED cur
             ELSE /\ cur' = [cur EXCEPT ![t] = @ + 1]
                  /\ UNCHANGED <<result, pc>>
    /\ UNCHANGED <<state, started, sw, signals, op, seq, num_canceled, raised, snap>>

\* (mutant) an empty sequence makes wait_any return at once.
WaitAnyScanEndEmptyReturns(t) ==
    /\ pc[t] = "scan" /\ cur[t] = End(t)
    /\ Return(t, IF End(t) = 0 THEN "done" ELSE "wait")
    /\ UNCHANGED <<op, seq, calls>>
    /\ UNCHANGED reqVars
    /\ UNCHANGED localVars

\* cur == reqs_end: the loop ends and the caller goes on to sw.wait_for_on().
WaitAnyScanEnd(t) ==
    /\ pc[t] = "scan" /\ cur[t] = End(t)
    /\ pc' = [pc EXCEPT ![t] = "wait"]
    /\ UNCHANGED <<op, seq, calls, snap>>
    /\ UNCHANGED reqVars
    /\ UNCHANGED localVars

\* (mutant) the walk back stops one position early.
UndoLastEarly(c) == c <= 1

\* while (--cur != reqs_begin) delete_waiter; delete_waiter on reqs_begin.
\* cur has been decremented already; after the call at position 0 the walk ends.
UndoLast(c) == c = 0

WaitAnyUndo(t) ==
    /\ pc[t] = "undo"
    /\ waiters' = delete_waiter(At(t, cur[t]), Switch(t))
    /\ calls' = [calls EXCEPT ![t] = Append(@, Call("delete_waiter", cur[t], FALSE))]
    /\ IF UndoLast(cur[t])
       THEN /\ pc' = [pc EXCEPT ![t] = "check"]
            /\ UNCHANGED cur
       ELSE /\ cur' = [cur EXCEPT ![t] = @ - 1]
            /\ UNCHANGED pc
    /\ UNCHANGED <<state, started, sw, signals, op, seq, result, num_canceled, raised, snap>>

\* (mutant) check_error() is not called on the request found.
ErrorSurfacedNever(r) == FALSE

\* check_error() on the request found: either it raises, or wait_any returns result.
ErrorSurfaced(r) == check_error(r)

WaitAnyCheck(t) ==
    /\ pc[t] = "check"
    /\ raised' = [raised EXCEPT ![t] = ErrorSurfaced(At(t, result[t]))]
    /\ calls' = [calls EXCEPT ![t] =
                   Append(@, Call("check_error", result[t], check_error(At(t, result[t]))))]
    /\ Return(t, "done")
    /\ UNCHANGED <<op, seq, cur, result, num_canceled>>
    /\ UNCHANGED reqVars

\* sw.wait_for_on(): returns once the switch is on.
WaitAnyWake(t) ==
    /\ pc[t] = "wait"
    /\ sw[Switch(t)]
    /\ calls' = [calls EXCEPT ![t] = Append(@, Call("wait_for_on", End(t), TRUE))]
    /\ cur' = [cur EXCEPT ![t] = 0]
    /\ snap' = [snap EXCEPT ![t].wake = TermPos(t)]
    /\ pc' = [pc EXCEPT ![t] = IF End(t) = 0 THEN "done" ELSE "clean_del"]
    /\ UNCHANGED <<op, seq, result, num_canceled, raised>>
    /\ UNCHANGED reqVars

\* (mutant) the test result == reqs_end is dropped: every position is polled.
NeedsPollAlways(res, end) == TRUE

\* The cleanup scan: delete_waiter on cur ...
NeedsPoll(res, end) == res = end

WaitAnyCleanDelete(t) ==
    /\ pc[t] = "clean_del"
    /\ waiters' = delete_waiter(At(t, cur[t]), Switch(t))
    /\ calls' = [calls EXCEPT ![t] = Append(@, Call("delete_waiter", cur[t], FALSE))]
    /\ IF NeedsPoll(result[t], End(t))
       THEN /\ Return(t, "clean_poll")
            /\ UNCHANGED cur
       ELSE /\ cur' = [cur EXCEPT ![t] = @ + 1]
            /\ Return(t, IF cur[t] + 1 = End(t) THEN "done" ELSE "clean_del")
    /\ UNCHANGED <<state, started, sw, signals, op, seq, result, num_canceled, raised>>

\* (mutant) the position is recorded whatever poll() returns.
RecordedUnpolled(res, c, ret) == c

\* (mutant) the position polled true is not recorded.
RecordedNever(res, c, ret) == res

\* if (... && poll()) result = cur;
Recorded(res, c, ret) == IF ret THEN c ELSE res

\* (mutant) the post-wakeup path too calls check_error() on the Request it
\* returns, as the registration path does.
WaitAnyCleanPollChecked(t) ==
    /\ pc[t] = "clean_poll"
    /\ LET ret == poll(At(t, cur[t]))
           last == cur[t] + 1 = End(t)
           res == Recorded(result[t], cur[t], ret)
       IN /\ calls' = [calls EXCEPT ![t] =
                IF last /\ res # End(t)
                THEN Append(Append(@, Call("poll", cur[t], ret)),
                            Call("check_error", res, check_error(At(t, res))))
                ELSE Append(@, Call("poll", cur[t], ret))]
          /\ result' = [result EXCEPT ![t] = res]
          /\ raised' = [raised EXCEPT ![t] =
                IF last /\ res # End(t) THEN check_error(At(t, res)) ELSE @]
    /\ cur' = [cur EXCEPT ![t] = @ + 1]
    /\ Return(t, IF cur[t] + 1 = End(t) THEN "done" ELSE "clean_del")
    /\ UNCHANGED <<op, seq, num_canceled>>
    /\ UNCHANGED reqVars

\* ... then, while result == reqs_end, poll() on cur.
WaitAnyCleanPoll(t) ==
    /\ pc[t] = "clean_poll"
    /\ LET ret == poll(At(t, cur[t]))
       IN /\ calls' = [calls EXCEPT ![t] = Append(@, Call("poll", cur[t], ret))]
          /\ result' = [result EXCEPT ![t] = Recorded(@, cur[t], ret)]
    /\ cur' = [cur EXCEPT ![t] = @ + 1]
    /\ Return(t, IF cur[t] + 1 = End(t) THEN "done" ELSE "clean_del")
    /\ UNCHANGED <<op, seq, num_canceled, raised>>
    /\ UNCHANGED reqVars

\* The array overload: the index wait_any(req_array, req_array + count) - req_array.
WaitAnyIndex(t) == result[t]

WaitAny(t) ==
    \/ WaitAnyScan(t)
    \/ WaitAnyScanEnd(t)
    \/ WaitAnyUndo(t)
    \/ WaitAnyCheck(t)
    \/ WaitAnyWake(t)
    \/ WaitAnyCleanDelete(t)
    \/ WaitAnyCleanPoll(t)

(***************************************************************************)
(* wait_all                                                                *)
(***************************************************************************)
\* (mutant) the loop ends one Request early.
WaitAllMoreButLast(c, end) == c # end /\ c + 1 # end

\* The loop condition reqs_begin != reqs_end.
WaitAllMore(c, end) == c # end

\* wait() on the Request at reqs_begin: returns once it has left Pending.
WaitAllWait(t) ==
    /\ pc[t] = "wa_loop" /\ WaitAllMore(cur[t], End(t))
    /\ poll(At(t, cur[t]))
    /\ calls' = [calls EXCEPT ![t] = Append(@, Call("wait", cur[t], TRUE))]
    /\ cur' = [cur EXCEPT ![t] = @ + 1]
    /\ UNCHANGED <<op, seq, pc, result, num_canceled, raised, snap>>
    /\ UNCHANGED reqVars

WaitAllReturn(t) ==
    /\ pc[t] = "wa_loop" /\ ~WaitAllMore(cur[t], End(t))
    /\ Return(t, "done")
    /\ UNCHANGED <<op, seq, calls>>
    /\ UNCHANGED reqVars
    /\ UNCHANGED localVars

(***************************************************************************)
(* cancel_all                                                              *)
(***************************************************************************)
\* (mutant) every call is counted, whatever cancel() returns.
CountedAlways(n, ret) == n + 1

\* if (cancel()) ++num_canceled;
Counted(n, ret) == IF ret THEN n + 1 ELSE n

\* cancel() on the Request at reqs_begin.
CancelAllCancel(t) ==
    /\ pc[t] = "ca_loop" /\ cur[t] # End(t)
    /\ LET r == At(t, cur[t])
           ret == cancel_ret(r)
       IN /\ cancel(r)
          /\ calls' = [calls EXCEPT ![t] = Append(@, Call("cancel", cur[t], ret))]
          /\ num_canceled' = [num_canceled EXCEPT ![t] = Counted(@, ret)]
    /\ cur' = [cur EXCEPT ![t] = @ + 1]
    /\ UNCHANGED <<started, waiters, op, seq, pc, result, raised, snap>>

CancelAllReturn(t) ==
    /\ pc[t] = "ca_loop" /\ cur[t] = End(t)
    /\ result' = [result EXCEPT ![t] = num_canceled[t]]
    /\ Return(t, "done")
    /\ UNCHANGED <<op, seq, cur, num_canceled, raised, calls>>
    /\ UNCHANGED reqVars

(***************************************************************************)
(* poll_any                                                                *)
(***************************************************************************)
\* (mutant) the test of poll() is inverted.
PollHitInverted(ret) == ~ret

\* if (poll()) return reqs_begin;
PollHit(ret) == ret

PollAnyPoll(t) ==
    /\ pc[t] = "pa_loop" /\ cur[t] # End(t)
    /\ LET ret == poll(At(t, cur[t]))
       IN /\ calls' = [calls EXCEPT ![t] = Append(@, Call("poll", cur[t], ret))]
          /\ IF PollHit(ret)
             THEN /\ result' = [result EXCEPT ![t] = cur[t]]
                  /\ Return(t, "done")
                  /\ UNCHANGED cur
             ELSE /\ cur' = [cur EXCEPT ![t] = @ + 1]
                  /\ UNCHANGED <<result, pc, snap>>
    /\ UNCHANGED <<op, seq, num_canceled, raised>>
    /\ UNCHANGED reqVars

\* return reqs_end;
PollAnyNotFound(t) ==
    /\ pc[t] = "pa_loop" /\ cur[t] = End(t)
    /\ result' = [result EXCEPT ![t] = End(t)]
    /\ Return(t, "done")
    /\ UNCHANGED <<op, seq, cur, num_canceled, raised, calls>>
    /\ UNCHANGED reqVars

\* The array overload: index = res - req_array, and the found flag.
PollAnyIndex(t) == result[t]
PollAnyFound(t) == result[t] # End(t)

\* A caller that has returned goes on to another group operation, on the
\* first n handles for an n of its choice.
Again(t) ==
    /\ pc[t] = "done"
    /\ pc' = [pc EXCEPT ![t] = "idle"]
    /\ \E k \in Kinds : op' = [op EXCEPT ![t] = k]
    /\ \E s \in Prefixes : seq' = [seq EXCEPT ![t] = s]
    /\ calls' = [calls EXCEPT ![t] = <<>>]
    /\ snap' = [snap EXCEPT ![t] = [call |-> {}, wake |-> {}, ret |-> {}]]
    /\ UNCHANGED reqVars
    /\ UNCHANGED localVars

(***************************************************************************)
(* Specifications                                                          *)
(***************************************************************************)
InitRequests ==
    /\ state = [r \in Requests |-> "Pending"]
    /\ started = [r \in Requests |-> FALSE]
    /\ waiters = [r \in Requests |-> {}]
    /\ sw = [t \in Threads |-> FALSE]
    /\ signals = [t \in Threads |-> {}]

InitLocals ==
    /\ pc = [t \in Threads |-> "idle"]
    /\ cur = [t \in Threads |-> 0]
    /\ result = [t \in Threads |-> 0]
    /\ num_canceled = [t \in Threads |-> 0]
    /\ raised = [t \in Threads |-> FALSE]
    /\ calls = [t \in Threads |-> <<>>]
    /\ snap = [t \in Threads |-> [call |-> {}, wake |-> {}, ret |-> {}]]

\* One thread calls wait_any on a sequence of its choice.
InitWaitAny ==
    /\ InitRequests /\ InitLocals
    /\ op = [t \in Threads |-> IF t = "main" THEN "wait_any" ELSE "none"]
    /\ \E s \in Seqs : seq = [t \in Threads |-> IF t = "main" THEN s ELSE <<>>]

NextWaitAny ==
    \/ \E r \in Requests : Start(r)
    \/ \E r \in Requests : Complete(r)
    \/ \E r \in Requests : Fail(r)
    \/ \E t \in Threads : Enter(t)
    \/ \E t \in Threads : WaitAnyScan(t)
    \/ \E t \in Threads : WaitAnyScanEnd(t)
    \/ \E t \in Threads : WaitAnyUndo(t)
    \/ \E t \in Threads : WaitAnyCheck(t)
    \/ \E t \in Threads : WaitAnyWake(t)
    \/ \E t \in Threads : WaitAnyCleanDelete(t)
    \/ \E t \in Threads : WaitAnyCleanPoll(t)

SpecWaitAny == InitWaitAny /\ [][NextWaitAny]_vars

\* The same, with the caller's thread scheduled fairly: a step of wait_any
\* that stays possible is eventually taken.  Nothing obliges the execution
\* side to ever finish a request.
\* A single caller does not tell the handles apart, so the sequences of the
\* first n handles stand for all sequences of distinct handles.
InitWaitAnyPrefix ==
    /\ InitRequests /\ InitLocals
    /\ op = [t \in Threads |-> IF t = "main" THEN "wait_any" ELSE "none"]
    /\ \E s \in Prefixes : seq = [t \in Threads |-> IF t = "main" THEN s ELSE <<>>]

FairWaitAny ==
    /\ InitWaitAnyPrefix /\ [][NextWaitAny]_vars
    /\ WF_vars(Enter("main")) /\ WF_vars(WaitAny("main"))

(***************************************************************************)
(* Properties                                                              *)
(***************************************************************************)
Caller == "main"
Done(t) == pc[t] = "done"
\* The call went through sw.wait_for_on(): it returns by the post-wakeup path.
Blocked(t) == \E i \in DOMAIN calls[t] : calls[t][i].m = "wait_for_on"
\* The positions at which a call of method m returned TRUE.
Hits(t, m) == {calls[t][i].pos : i \in {j \in DOMAIN calls[t] :
                                          calls[t][j].m = m /\ calls[t][j].ret}}
Min(S) == CHOOSE x \in S : \A y \in S : x <= y
\* The lowest position of S, or the end-of-range position when S is empty.
Lowest(S, end) == IF S = {} THEN end ELSE Min(S)

\* C1: no missed wakeup. Once wait_any has been called on a non-empty
\* sequence and some Request of it is terminal (whether it completed before
\* the call, during the registration scan or while the caller blocks), the
\* call eventually returns, under fair scheduling of the caller.
C1_NoMissedWakeup ==
    (pc[Caller] # "idle" /\ TermPos(Caller) # {}) ~> Done(Caller)

\* The caller blocked on the switch, with nothing terminal at call time, and
\* has returned.
C1_Witness ==
    Done(Caller) /\ Blocked(Caller) /\ snap[Caller].call = {}

\* C2: no leaked waiters. When wait_any has returned, by either path, its
\* switch is registered on no Request.
C2_NoLeakedWaiters ==
    \A t \in Threads :
        (op[t] = "wait_any" /\ Done(t)) => \A r \in Requests : t \notin waiters[r]

\* wait_any returned by the registration path after registering its switch
\* on at least two Requests.
C2_Witness ==
    Done(Caller) /\ ~Blocked(Caller) /\ result[Caller] >= 2

\* C3 as stated: every Request that completed between the call and the
\* return of wait_any is the one whose position is returned.
C3_Original ==
    Done(Caller) =>
        \A j \in snap[Caller].ret \ snap[Caller].call : result[Caller] = j

\* C3, amended: once a Request of S is terminal the call returns under fair
\* scheduling, and the position returned is that of a Request terminal at
\* the return, which is r's position when r is the only terminal one.
C3_ReturnsATerminal ==
    Done(Caller) =>
        /\ result[Caller] \in snap[Caller].ret
        /\ \A j \in Positions(Caller) :
              snap[Caller].ret = {j} => result[Caller] = j

C3_Amended ==
    /\ []C3_ReturnsATerminal
    /\ (pc[Caller] # "idle" /\ TermPos(Caller) # {}) ~> Done(Caller)

\* Two Requests completed after the call began and wait_any returned the
\* position of the first of them.
C3_Witness ==
    /\ Done(Caller) /\ snap[Caller].call = {}
    /\ Cardinality(snap[Caller].ret) >= 2
    /\ result[Caller] = Min(snap[Caller].ret)

\* C4: the position returned is the lowest one found terminal: after a
\* wakeup the lowest position whose poll() returned true in the cleanup
\* scan, hence no higher than any position terminal when the scan began
\* (0 when positions 0 and 2 both are); on the registration path the lowest
\* position whose add_waiter returned true.
C4_LowestIndex ==
    Done(Caller) =>
        IF Blocked(Caller)
        THEN /\ Hits(Caller, "poll") # {}
             /\ result[Caller] = Min(Hits(Caller, "poll"))
             /\ \A j \in snap[Caller].wake : result[Caller] <= j
             /\ ({0, 2} \subseteq snap[Caller].wake => result[Caller] = 0)
        ELSE /\ Hits(Caller, "add_waiter") # {}
             /\ result[Caller] = Min(Hits(Caller, "add_waiter"))

\* Positions 0 and 2 were both terminal when the cleanup scan began.
C4_Witness ==
    Done(Caller) /\ Blocked(Caller) /\ {0, 2} \subseteq snap[Caller].wake

\* C5 as stated: wait_any([r0]) with r0 Failed returns position 0 and raises
\* the stored error, whenever r0 failed.
C5_Original ==
    (Done(Caller) /\ End(Caller) = 1 /\ state[At(Caller, 0)] = "Failed"
        /\ 0 \in snap[Caller].ret)
    => (result[Caller] = 0 /\ raised[Caller])

\* C5, amended: wait_any([r0]) with r0 Failed finds position 0; it raises the
\* stored error exactly when r0 had failed before add_waiter was called on
\* it (the registration path), and returns position 0 without raising when
\* r0 fails while the caller is blocked on the switch.
C5_Amended ==
    (Done(Caller) /\ End(Caller) = 1 /\ state[At(Caller, 0)] = "Failed"
        /\ 0 \in snap[Caller].ret)
    => (result[Caller] = 0 /\ (raised[Caller] <=> ~Blocked(Caller)))

\* r0 had failed before the call, and the error was raised.
C5_Witness ==
    /\ Done(Caller) /\ End(Caller) = 1 /\ state[At(Caller, 0)] = "Failed"
    /\ 0 \in snap[Caller].call /\ raised[Caller]

InitOne(k) ==
    /\ InitRequests /\ InitLocals
    /\ op = [t \in Threads |-> IF t = "main" THEN k ELSE "none"]
    /\ \E s \in Seqs : seq = [t \in Threads |-> IF t = "main" THEN s ELSE <<>>]

\* One thread calls wait_all.
InitWaitAll == InitOne("wait_all")

NextWaitAll ==
    \/ \E r \in Requests : Start(r)
    \/ \E r \in Requests : Complete(r)
    \/ \E r \in Requests : Fail(r)
    \/ \E t \in Threads : Enter(t)
    \/ \E t \in Threads : WaitAllWait(t)
    \/ \E t \in Threads : WaitAllReturn(t)

SpecWaitAll == InitWaitAll /\ [][NextWaitAll]_vars

\* One thread calls cancel_all.
InitCancelAll == InitOne("cancel_all")

NextCancelAll ==
    \/ \E r \in Requests : Start(r)
    \/ \E r \in Requests : Complete(r)
    \/ \E r \in Requests : Fail(r)
    \/ \E t \in Threads : Enter(t)
    \/ \E t \in Threads : CancelAllCancel(t)
    \/ \E t \in Threads : CancelAllReturn(t)

SpecCancelAll == InitCancelAll /\ [][NextCancelAll]_vars

\* One thread calls poll_any.
InitPollAny == InitOne("poll_any")

NextPollAny ==
    \/ \E r \in Requests : Start(r)
    \/ \E r \in Requests : Complete(r)
    \/ \E r \in Requests : Fail(r)
    \/ \E t \in Threads : Enter(t)
    \/ \E t \in Threads : PollAnyPoll(t)
    \/ \E t \in Threads : PollAnyNotFound(t)

SpecPollAny == InitPollAny /\ [][NextPollAny]_vars

\* One thread runs any sequence of group operations, each on a sequence of
\* its choice, while the execution side completes requests.
Init ==
    /\ InitRequests /\ InitLocals
    /\ \E k \in Kinds : op = [t \in Threads |-> IF t = "main" THEN k ELSE "none"]
    /\ \E s \in Prefixes : seq = [t \in Threads |-> IF t = "main" THEN s ELSE <<>>]

Next ==
    \/ \E r \in Requests : Start(r)
    \/ \E r \in Requests : Complete(r)
    \/ \E r \in Requests : Fail(r)
    \/ \E t \in Threads : Enter(t)
    \/ \E t \in Threads : WaitAnyScan(t)
    \/ \E t \in Threads : WaitAnyScanEnd(t)
    \/ \E t \in Threads : WaitAnyUndo(t)
    \/ \E t \in Threads : WaitAnyCheck(t)
    \/ \E t \in Threads : WaitAnyWake(t)
    \/ \E t \in Threads : WaitAnyCleanDelete(t)
    \/ \E t \in Threads : WaitAnyCleanPoll(t)
    \/ \E t \in Threads : WaitAllWait(t)
    \/ \E t \in Threads : WaitAllReturn(t)
    \/ \E t \in Threads : CancelAllCancel(t)
    \/ \E t \in Threads : CancelAllReturn(t)
    \/ \E t \in Threads : PollAnyPoll(t)
    \/ \E t \in Threads : PollAnyNotFound(t)
    \/ \E t \in Threads : Again(t)

Spec == Init /\ [][Next]_vars

\* C6: wait_all completeness. When wait_all has returned, every Request of
\* its sequence is terminal, and was at the moment of the return.
C6_WaitAllComplete ==
    \A t \in Threads :
        (op[t] = "wait_all" /\ Done(t)) =>
            /\ snap[t].ret = Positions(t)
            /\ \A i \in Positions(t) : poll(At(t, i))

\* wait_all returned on a sequence of two or more Requests, none of which
\* was terminal at the call.
C6_Witness ==
    Done(Caller) /\ End(Caller) >= 2 /\ snap[Caller].call = {}

\* C7 as stated: poll_any returns the lowest position terminal at its
\* return, and the end-of-range position iff none is terminal then.
C7_Original ==
    Done(Caller) => result[Caller] = Lowest(snap[Caller].ret, End(Caller))

\* C7, amended: poll_any returns the lowest position whose poll() returned
\* true when the scan reached it, and not-found iff no poll() returned true.
\* The element returned is terminal, and the position lies between the lowest
\* position terminal at the return and the lowest one terminal at the call:
\* it is the lowest terminal position when no Request of S changes state
\* during the scan, and a Request that completes after the scan has passed
\* it is not seen.
C7_Amended ==
    Done(Caller) =>
        /\ PollAnyIndex(Caller) = Lowest(Hits(Caller, "poll"), End(Caller))
        /\ (PollAnyFound(Caller) <=> Hits(Caller, "poll") # {})
        /\ (PollAnyFound(Caller) => PollAnyIndex(Caller) \in snap[Caller].ret)
        /\ Lowest(snap[Caller].ret, End(Caller)) <= PollAnyIndex(Caller)
        /\ PollAnyIndex(Caller) <= Lowest(snap[Caller].call, End(Caller))
        /\ (snap[Caller].call = snap[Caller].ret =>
              PollAnyIndex(Caller) = Lowest(snap[Caller].ret, End(Caller)))

\* poll_any found a terminal element although none was terminal at the call.
C7_Witness ==
    Done(Caller) /\ PollAnyFound(Caller) /\ snap[Caller].call = {}

\* C8: cancel_all calls cancel() once on every position, in range order, and
\* returns the number of calls that returned true: 0 on the empty sequence,
\* and 1 on [r0, r1] when cancel() succeeds on r0 and r1 was terminal at the
\* call, r1 still being terminal afterwards.
C8_CancelAllCount ==
    Done(Caller) =>
        /\ Len(calls[Caller]) = End(Caller)
        /\ \A i \in DOMAIN calls[Caller] :
              calls[Caller][i].m = "cancel" /\ calls[Caller][i].pos = i - 1
        /\ result[Caller] =
              Cardinality({i \in DOMAIN calls[Caller] : calls[Caller][i].ret})
        /\ (End(Caller) = 0 => result[Caller] = 0)
        /\ (End(Caller) = 2 /\ calls[Caller][1].ret /\ 1 \in snap[Caller].call
              => result[Caller] = 1 /\ poll(At(Caller, 1)))

\* cancel_all([r0, r1]) returned with r0 canceled by it and r1 terminal
\* before the call.
C8_Witness ==
    /\ Done(Caller) /\ End(Caller) = 2
    /\ calls[Caller][1].ret /\ 1 \in snap[Caller].call

\* C9: monotonicity. No step of a group operation or of the execution side
\* takes a Request that has left Pending back to Pending.
C9_Monotonic ==
    [][\A r \in Requests : state[r] # "Pending" => state'[r] # "Pending"]_vars

\* cancel_all has called cancel() on a Request that was terminal at the call,
\* and the Request is terminal.
C9_Witness ==
    /\ Done(Caller) /\ op[Caller] = "cancel_all"
    /\ \E i \in snap[Caller].call : poll(At(Caller, i))

\* C10: add_waiter is atomic with the completion transition. Each call
\* returns true exactly when the Request is terminal at that moment, and then
\* leaves the waiter set as it was; it returns false exactly when the Request
\* is Pending, and then the switch is registered. A completion is delivered
\* once: a Request whose add_waiter returned true never signals the switch,
\* and one that completes while registered has signalled it.
C10_AddWaiterCall ==
    \A t \in Threads :
        (pc[t] = "scan" /\ Len(calls'[t]) = Len(calls[t]) + 1) =>
            LET r == At(t, cur[t])
                e == calls'[t][Len(calls'[t])]
            IN /\ e.m = "add_waiter"
               /\ e.ret <=> state[r] # "Pending"
               /\ e.ret => waiters'[r] = waiters[r]
               /\ ~e.ret => waiters'[r] = waiters[r] \cup {t}

C10_DeliveredOnce ==
    \A t \in Threads : \A i \in DOMAIN calls[t] :
        calls[t][i].m = "add_waiter" =>
            LET r == At(t, calls[t][i].pos)
            IN /\ calls[t][i].ret => r \notin signals[t]
               /\ (~calls[t][i].ret /\ poll(r) /\ t \in waiters[r])
                     => (r \in signals[t] /\ sw[t])
               /\ (~calls[t][i].ret /\ poll(r) /\ pc[t] \in {"scan", "wait"})
                     => (r \in signals[t] /\ sw[t])

C10_AddWaiterAtomic ==
    /\ []C10_DeliveredOnce
    /\ [][C10_AddWaiterCall]_vars

\* A completion raced with the registration scan: one Request completed
\* after it was registered and signalled the switch, and a later add_waiter
\* returned true.
C10_Witness ==
    /\ Done(Caller) /\ ~Blocked(Caller)
    /\ snap[Caller].call = {} /\ signals[Caller] # {}

\* C11 as stated: when some Request of S is terminal at the call, wait_any
\* never blocks on the switch, and on [r0, r1, r2] with only r1 terminal at
\* the call it returns position 1.
C11_Original ==
    /\ (pc[Caller] # "idle" /\ snap[Caller].call # {})
          => (pc[Caller] # "wait" /\ ~Blocked(Caller))
    /\ (Done(Caller) /\ End(Caller) = 3 /\ snap[Caller].call = {1})
          => result[Caller] = 1

\* C11, amended: when some Request of S is terminal at the call, wait_any
\* never blocks on the switch and returns a position no higher than the
\* lowest one terminal at the call. On [r0, r1, r2] with only r1 terminal at
\* the call it returns position 1, unless r0 completes before add_waiter is
\* called on it, and then it returns position 0.
C11_NeverBlocks ==
    /\ (pc[Caller] # "idle" /\ snap[Caller].call # {})
          => (pc[Caller] # "wait" /\ ~Blocked(Caller))
    /\ (Done(Caller) /\ snap[Caller].call # {})
          => result[Caller] <= Min(snap[Caller].call)
    /\ (Done(Caller) /\ End(Caller) = 3 /\ snap[Caller].call = {1})
          => result[Caller] = (IF 0 \in Hits(Caller, "add_waiter") THEN 0 ELSE 1)

C11_Amended ==
    /\ []C11_NeverBlocks
    /\ (pc[Caller] # "idle" /\ snap[Caller].call # {}) ~> Done(Caller)

\* Scenario A: only r1 was terminal at the call, and wait_any returned
\* position 1 without blocking.
C11_Witness ==
    /\ Done(Caller) /\ End(Caller) = 3 /\ snap[Caller].call = {1}
    /\ result[Caller] = 1 /\ ~Blocked(Caller)

\* C12: when wait_any raises the stored error of the Request at position i,
\* it has called no method on a Request at a position above i, and its
\* switch is registered on none of them.
C12_UntouchedPastError ==
    \A t \in Threads :
        (op[t] = "wait_any" /\ Done(t) /\ raised[t]) =>
            /\ \A k \in DOMAIN calls[t] : calls[t][k].pos <= result[t]
            /\ \A j \in Positions(t) : j > result[t] => t \notin waiters[At(t, j)]

\* wait_any raised the error of a Request that has Requests before and
\* after it in the sequence.
C12_Witness ==
    /\ Done(Caller) /\ raised[Caller]
    /\ result[Caller] >= 1 /\ result[Caller] < End(Caller) - 1

\* C13: check_error() is called only by wait_any on its registration path,
\* as its last call and on the position it returns. A wait_any that returns
\* after a wakeup, and poll_any, wait_all and cancel_all, never call it and
\* never raise, also when the Request returned or passed over is Failed.
C13_CheckErrorOnlyOnRegistrationPath ==
    \A t \in Threads :
        pc[t] # "idle" =>
            /\ \A k \in DOMAIN calls[t] :
                  calls[t][k].m = "check_error" =>
                      /\ op[t] = "wait_any" /\ ~Blocked(t)
                      /\ k = Len(calls[t]) /\ calls[t][k].pos = result[t]
            /\ raised[t] => (op[t] = "wait_any" /\ ~Blocked(t))
            /\ (Done(t) /\ op[t] = "wait_any" /\ ~Blocked(t)) =>
                  calls[t][Len(calls[t])].m = "check_error"

\* wait_any returned a Failed Request by the post-wakeup path, and no error
\* was raised.
C13_Witness ==
    /\ Done(Caller) /\ op[Caller] = "wait_any" /\ Blocked(Caller)
    /\ state[At(Caller, result[Caller])] = "Failed" /\ ~raised[Caller]

\* C14: a wait_any that returns position i by the registration path has made
\* exactly these calls, in this order: add_waiter on 0 .. i (true only at
\* i), delete_waiter once on each of i-1, i-2, ..., 0 (none when i = 0, and
\* never on i or above), and then check_error on i.
C14_UndoOrder ==
    \A t \in Threads :
        (op[t] = "wait_any" /\ Done(t) /\ ~Blocked(t)) =>
            LET i == result[t]
                log == calls[t]
            IN /\ Len(log) = 2 * i + 2
               /\ \A k \in 1 .. (i + 1) :
                     /\ log[k].m = "add_waiter" /\ log[k].pos = k - 1
                     /\ log[k].ret <=> (k = i + 1)
               /\ \A k \in 1 .. i :
                     /\ log[i + 1 + k].m = "delete_waiter"
                     /\ log[i + 1 + k].pos = i - k
               /\ log[2 * i + 2].m = "check_error" /\ log[2 * i + 2].pos = i

\* wait_any found position 2 terminal and undid the registrations at
\* positions 1 and 0 before check_error.
C14_Witness ==
    /\ Done(Caller) /\ ~Blocked(Caller) /\ result[Caller] = 2
    /\ Len(calls[Caller]) = 6 /\ calls[Caller][5].m = "delete_waiter"

\* C15 as stated: the switch of a wait_any call is signalled by at most one
\* Request.
C15_Original ==
    \A t \in Threads :
        (op[t] = "wait_any" /\ pc[t] # "idle") => Cardinality(signals[t]) <= 1

\* C15, amended: the switch of a wait_any call goes from off to on at most
\* once, by the first registered Request to complete, and stays on for the
\* rest of the call; a Request that completes later while still registered
\* signals the switch again, which leaves it on.
C15_SwitchState ==
    \A t \in Threads :
        (op[t] = "wait_any" /\ pc[t] # "idle") =>
            /\ sw[t] <=> signals[t] # {}
            /\ \A r \in signals[t] :
                  poll(r) /\ \E i \in Positions(t) : At(t, i) = r

C15_SwitchStep ==
    \A t \in Threads :
        /\ (sw[t] /\ ~sw'[t]) => pc[t] = "idle"
        /\ (~sw[t] /\ sw'[t]) =>
              (signals[t] = {} /\ Cardinality(signals'[t]) = 1)

C15_Amended ==
    /\ []C15_SwitchState
    /\ [][C15_SwitchStep]_vars

\* Two registered Requests have completed before the cleanup scan removed
\* their registrations, and the switch is on.
C15_Witness ==
    /\ pc[Caller] \in {"wait", "clean_del"} /\ cur[Caller] = 0 /\ sw[Caller]
    /\ Cardinality(signals[Caller]) >= 2
    /\ \A r \in signals[Caller] : Caller \in waiters[r]

\* C16: when the registration scan has ended without add_waiter returning
\* true and the caller waits on its switch, the switch is registered on
\* every Request of the sequence, and add_waiter was called once on each
\* position and returned false.
C16_AllRegistered ==
    \A t \in Threads :
        (op[t] = "wait_any" /\ pc[t] = "wait") =>
            /\ \A i \in Positions(t) : t \in waiters[At(t, i)]
            /\ Len(calls[t]) = End(t)
            /\ \A k \in DOMAIN calls[t] :
                  /\ calls[t][k].m = "add_waiter" /\ calls[t][k].pos = k - 1
                  /\ ~calls[t][k].ret

\* The caller starts blocking on a sequence of two or more Requests, all
\* still Pending.
C16_Witness ==
    /\ pc[Caller] = "wait" /\ ~sw[Caller]
    /\ End(Caller) >= 2 /\ TermPos(Caller) = {}

\* C17: whenever wait_any returns, the position (and the index of the array
\* overload) is inside the sequence, never the end-of-range position, and
\* the Request there is terminal at the return; after a wakeup the cleanup
\* scan has found a poll() that returned true.
C17_ReturnsInsideS ==
    \A t \in Threads :
        (op[t] = "wait_any" /\ Done(t)) =>
            /\ WaitAnyIndex(t) \in Positions(t)
            /\ WaitAnyIndex(t) # End(t)
            /\ WaitAnyIndex(t) \in snap[t].ret
            /\ Blocked(t) => Hits(t, "poll") # {}

\* After a wakeup the cleanup scan found the only terminal Request at the
\* last position of a sequence of two or more.
C17_Witness ==
    /\ Done(Caller) /\ Blocked(Caller) /\ End(Caller) >= 2
    /\ result[Caller] = End(Caller) - 1

\* C18: wait_any on an empty sequence calls no method of any Request,
\* registers its switch nowhere, goes on to wait on the switch, which stays
\* off, and never returns.
C18_EmptyState ==
    \A t \in Threads :
        (op[t] = "wait_any" /\ pc[t] # "idle" /\ End(t) = 0) =>
            /\ pc[t] \in {"scan", "wait"}
            /\ ~sw[t] /\ signals[t] = {}
            /\ calls[t] = <<>>
            /\ \A r \in Requests : t \notin waiters[r]

C18_EmptyNeverReturns ==
    /\ []C18_EmptyState
    /\ (pc[Caller] # "idle" /\ End(Caller) = 0) ~> [](pc[Caller] = "wait")

\* The caller of wait_any on the empty sequence waits on its switch while
\* every Request that exists has completed.
C18_Witness ==
    /\ pc[Caller] = "wait" /\ End(Caller) = 0
    /\ \A r \in Requests : poll(r)

(***************************************************************************)
(* Two concurrent callers of wait_any                                      *)
(***************************************************************************)
\* Two callers run together on sequences one shorter than a single
\* caller's longest.
ShortPrefixes == {s \in Prefixes : Len(s) >= 1 /\ Len(s) < MaxLen}
\* The first n handles in reverse order.
Reversed == {[i \in 1 .. Len(s) |-> s[Len(s) + 1 - i]] : s \in ShortPrefixes}

\* Two threads call wait_any, each with its own switch, on sequences that
\* share handles: one on the first n handles in order, the other on the
\* first m handles in reverse order.
InitTwoWaiters ==
    /\ InitRequests /\ InitLocals
    /\ op = [t \in Threads |-> "wait_any"]
    /\ \E s \in ShortPrefixes : \E u \in Reversed :
          seq = [t \in Threads |-> IF t = "main" THEN s ELSE u]

NextTwoWaiters ==
    \/ \E r \in Requests : Start(r)
    \/ \E r \in Requests : Complete(r)
    \/ \E r \in Requests : Fail(r)
    \/ \E t \in Threads : Enter(t)
    \/ \E t \in Threads : WaitAnyScan(t)
    \/ \E t \in Threads : WaitAnyScanEnd(t)
    \/ \E t \in Threads : WaitAnyUndo(t)
    \/ \E t \in Threads : WaitAnyCheck(t)
    \/ \E t \in Threads : WaitAnyWake(t)
    \/ \E t \in Threads : WaitAnyCleanDelete(t)
    \/ \E t \in Threads : WaitAnyCleanPoll(t)

SpecTwoWaiters == InitTwoWaiters /\ [][NextTwoWaiters]_vars

\* Whether thread t's own calls leave its switch registered at position i:
\* its last add_waiter or delete_waiter call there is an add_waiter that
\* returned false.
OwnCalls(t, i) == {k \in DOMAIN calls[t] :
                     calls[t][k].pos = i /\ calls[t][k].m \in {"add_waiter", "delete_waiter"}}
Max(S) == CHOOSE x \in S : \A y \in S : x >= y
RegisteredByOwnCalls(t, i) ==
    /\ OwnCalls(t, i) # {}
    /\ LET e == calls[t][Max(OwnCalls(t, i))]
       IN e.m = "add_waiter" /\ ~e.ret

\* C19: two concurrent wait_any calls on overlapping sequences, each with
\* its own switch, do not interfere. Where a caller's switch is registered
\* depends on that caller's own add_waiter and delete_waiter calls alone, so
\* the other call's delete_waiter never removes it; a caller that waits
\* while a Request of its sequence is terminal has its switch on, so a
\* shared completion wakes both; and a call that has returned has left its
\* switch registered nowhere.
C19_NoInterference ==
    \A t \in Threads :
        pc[t] # "idle" =>
            /\ \A i \in Positions(t) :
                  t \in waiters[At(t, i)] <=> RegisteredByOwnCalls(t, i)
            /\ \A r \in Requests :
                  t \in waiters[r] => \E i \in Positions(t) : At(t, i) = r
            /\ (pc[t] = "wait" /\ TermPos(t) # {}) => sw[t]
            /\ Done(t) => \A r \in Requests : t \notin waiters[r]

\* Both callers blocked, one shared Request signalled both switches, and
\* both have returned.
C19_Witness ==
    /\ \A t \in Threads : Done(t) /\ Blocked(t)
    /\ signals["main"] \cap signals["other"] # {}

(***************************************************************************)
(* Termination of wait_all                                                 *)
(***************************************************************************)
WaitAll(t) == WaitAllWait(t) \/ WaitAllReturn(t)

\* wait_all with its caller scheduled fairly. Nothing obliges the execution
\* side to ever finish a request.
FairWaitAll ==
    /\ SpecWaitAll
    /\ WF_vars(Enter("main")) /\ WF_vars(WaitAll("main"))

AllTerminal(t) == \A i \in Positions(t) : poll(At(t, i))

\* C20: wait_all terminates exactly when every Request of S leaves Pending.
\* The loop never moves past a Request that is still Pending, so a Request
\* that stays Pending forever keeps wait_all from returning; and once every
\* Request of S is terminal, in whatever order they completed, a called
\* wait_all returns under fair scheduling.
C20_NeverPastPending ==
    \A t \in Threads :
        (op[t] = "wait_all" /\ pc[t] # "idle") =>
            /\ \A j \in Positions(t) : j < cur[t] => poll(At(t, j))
            /\ Done(t) => AllTerminal(t)

C20_WaitAllTerminates ==
    /\ []C20_NeverPastPending
    /\ (pc[Caller] # "idle" /\ AllTerminal(Caller)) ~> Done(Caller)

\* wait_all returned although the last Request of the sequence completed
\* before the first one did: it was terminal at the call, the first was not.
C20_Witness ==
    /\ Done(Caller) /\ End(Caller) >= 2
    /\ snap[Caller].call = {End(Caller) - 1}

====
